---- MODULE Spec2Model ----
(***************************************************************************)
(* Model of src/main.py: a FastAPI application that forwards an uploaded   *)
(* image to AWS Rekognition detect_labels and reshapes the reply.          *)
(*                                                                         *)
(* State: the process environment, the module-level client `rekognition`,  *)
(* the position of the POST /detect handler and its locals, the calls made *)
(* on the vendor client, and the last reply of each GET endpoint.          *)
(*                                                                         *)
(* Conventions.  A Python str that the code inspects (content_type) is a   *)
(* sequence of one-character strings.  A float confidence is an integer    *)
(* number of thousandths of a percent.  A bytes object is a record of its  *)
(* content identity and its length.  A vendor label is a function whose    *)
(* DOMAIN is the set of keys the vendor sent.                              *)
(***************************************************************************)
EXTENDS Integers, Sequences, FiniteSets, TLC

VARIABLES
    env,            \* os.environ: AWS_ACCESS_KEY_ID, AWS_SECRET_ACCESS_KEY
    rekognition,    \* module global: "None" or "Client"
    pc,             \* position of the /detect handler
    file,           \* the UploadFile of the request in flight
    image_bytes,    \* local image_bytes
    response,       \* local response (the vendor's reply)
    result,         \* how the /detect handler ended
    steps,          \* the steps the handler has taken for this request
    vendor_calls,   \* the detect_labels calls of this request: arguments
                    \* passed and what the vendor did
    get_replies     \* last reply of GET /, /health, /debug

vars == <<env, rekognition, pc, file, image_bytes, response, result, steps,
          vendor_calls, get_replies>>

(***************************************************************************)
(* Bounds of the model                                                     *)
(***************************************************************************)
\* the vendor detects at most this many labels in one image
MaxDetected == 14

\* number of scenes the vendor can recognise besides the mixed scene 0
NumScenes == 1

(***************************************************************************)
(* Helpers                                                                 *)
(***************************************************************************)
Min(a, b) == IF a <= b THEN a ELSE b

\* str.startswith
StartsWith(s, prefix) ==
    /\ Len(s) >= Len(prefix)
    /\ SubSeq(s, 1, Len(prefix)) = prefix

\* round(x, 2) on thousandths: the result is a multiple of 10 thousandths.
\* A tie is rounded half-to-even, which is what Python does for the values
\* that are exact in binary (the multiples of 0.125 used in LabelKinds).
Round2(c) ==
    LET r == c % 10
        q == c - r
    IN  IF r < 5 THEN q
        ELSE IF r > 5 THEN q + 10
        ELSE IF (q \div 10) % 2 = 0 THEN q ELSE q + 10

(***************************************************************************)
(* Program constants                                                       *)
(***************************************************************************)
\* line 85: 5 * 1024 * 1024
MaxImageBytes == 5 * 1024 * 1024

\* line 100
MaxLabels == 10

\* line 101
MinConfidence == 75

ImagePrefix == <<"i", "m", "a", "g", "e", "/">>

(***************************************************************************)
(* Inputs                                                                  *)
(***************************************************************************)
EnvValues == {"unset", "empty", "set"}

\* bool(os.getenv(name))
EnvTruthy(v) == v = "set"

NoneType == [isNone |-> TRUE, s |-> <<>>]
Str(s) == [isNone |-> FALSE, s |-> s]

ContentTypes ==
    { NoneType,
      Str(<<>>),
      Str(<<"i", "m", "a", "g", "e", "/", "p", "n", "g">>),
      Str(<<"i", "m", "a", "g", "e", "/">>),
      Str(<<"i", "m", "a", "g", "e">>),
      Str(<<"I", "m", "a", "g", "e", "/", "p", "n", "g">>),
      Str(<<"t", "e", "x", "t", "/", "p", "l", "a", "i", "n">>) }

BodyLens == {0, 1, MaxImageBytes - 1, MaxImageBytes, MaxImageBytes + 1}

Bodies == [data : {"A", "B"}, len : BodyLens]

NoBytes == [data |-> "-", len |-> 0]

Filenames == {"cat.png", "notes.txt"}

Uploads ==
    [content_type : ContentTypes, filename : Filenames, body : Bodies,
     read_raises : BOOLEAN]

NoFile ==
    [content_type |-> NoneType, filename |-> "-", body |-> NoBytes,
     read_raises |-> FALSE]

(***************************************************************************)
(* Exceptions and handler results                                          *)
(***************************************************************************)
HTTPException(status_code, detail) ==
    [type |-> "HTTPException", status_code |-> status_code, detail |-> detail,
     code |-> "-", message |-> "-"]

\* botocore ClientError: e.response['Error'] carries Code and Message
ClientError(code, message) ==
    [type |-> "ClientError", status_code |-> 0, detail |-> <<>>,
     code |-> code, message |-> message]

\* any exception that is neither of the two above
OtherException(text) ==
    [type |-> "Exception", status_code |-> 0, detail |-> <<text>>,
     code |-> "-", message |-> "-"]

NoException ==
    [type |-> "-", status_code |-> 0, detail |-> <<>>, code |-> "-",
     message |-> "-"]

\* str(e): an HTTPException prints its status code and its detail, any other
\* exception its message
StrOf(e) ==
    IF e.type = "HTTPException" THEN <<"<status_code>:">> \o e.detail
    ELSE e.detail

NoPayload ==
    [success |-> FALSE, filename |-> "-", labels_count |-> 0, labels |-> <<>>]

NoResult == [kind |-> "none", exc |-> NoException, payload |-> NoPayload]

Raised(e) == [kind |-> "raise", exc |-> e, payload |-> NoPayload]

Returned(p) == [kind |-> "return", exc |-> NoException, payload |-> p]

NotConfiguredDetail ==
    <<"AWS Rekognition client not configured. Please check environment variables.">>

NotImageDetail == <<"File must be an image (JPEG, PNG, etc.)">>

TooLargeDetail == <<"Image file too large. Maximum size is 5MB.">>

EmptyDetail == <<"Empty file uploaded">>

\* TryExcept without the `except ClientError` clause
TryExceptNoClientError(e) ==
    HTTPException(500, <<"Internal server error">> \o StrOf(e))

\* TryExcept without the `except Exception` clause: the exception propagates
TryExceptNoCatchAll(e) ==
    IF e.type = "ClientError"
    THEN HTTPException(400, <<"AWS Rekognition Error", e.code, e.message>>)
    ELSE e

\* lines 121-133: what the try statement turns an exception raised in its
\* body into.  `except ClientError` is tried first, `except Exception` next;
\* HTTPException is an Exception and not a ClientError.
TryExcept(e) ==
    IF e.type = "ClientError"
    THEN HTTPException(400, <<"AWS Rekognition Error", e.code, e.message>>)
    ELSE HTTPException(500, <<"Internal server error">> \o StrOf(e))

(***************************************************************************)
(* The vendor: rekognition.detect_labels                                   *)
(***************************************************************************)
\* Labels the service can detect.  Kind 3 is below the 75% threshold, kind 2
\* carries no "Categories" key, kind 4 carries an empty one.
LabelKinds ==
    << [Name |-> <<"Dog", 0>>, Confidence |-> 99996,
        Categories |-> <<[Name |-> "Animals and Pets"], [Name |-> "Nature"]>>],
       [Name |-> <<"Grass", 0>>, Confidence |-> 75125],
       [Name |-> <<"Car", 0>>, Confidence |-> 60000,
        Categories |-> <<[Name |-> "Vehicles"]>>],
       [Name |-> <<"Sky", 0>>, Confidence |-> 75000, Categories |-> <<>>] >>

ConfidentKinds == <<1, 2, 4>>

\* the i-th label the service detects in scene s: scene 0 cycles through all
\* kinds, a scene s > 0 through the confident kinds starting at the s-th
LabelAt(i, s) ==
    LET k == IF s = 0
             THEN LabelKinds[((i - 1) % Len(LabelKinds)) + 1]
             ELSE LabelKinds[ConfidentKinds[((i - 1 + s) % Len(ConfidentKinds)) + 1]]
    IN  [k EXCEPT !.Name = <<k.Name[1], i>>]

Detected(n, s) == [i \in 1..n |-> LabelAt(i, s)]

Detections == { Detected(n, s) : n \in 0..MaxDetected, s \in 0..NumScenes }

\* The service discards the labels below args.MinConfidence and returns at
\* most args.MaxLabels of the rest, in its own order.
VendorReply(args, detected) ==
    LET kept == SelectSeq(detected,
                          LAMBDA l : l.Confidence >= args.MinConfidence * 1000)
    IN  [Labels |-> SubSeq(kept, 1, Min(Len(kept), args.MaxLabels))]

\* a reply with a label that lacks the "Name" key
MalformedReply == [Labels |-> <<[Confidence |-> 90000]>>]

NoReply == [Labels |-> <<>>]

VendorErrors ==
    { ClientError("InvalidImageFormatException", "Request has invalid image format"),
      ClientError("ThrottlingException", "Rate exceeded"),
      OtherException("EndpointConnectionError") }

\* what one call can do: return a reply for what the service detected, or
\* raise
VendorOutcomes(args) ==
    { [raises |-> FALSE, exc |-> NoException, detected |-> d,
       reply |-> VendorReply(args, d)] : d \in Detections }
    \cup { [raises |-> FALSE, exc |-> NoException, detected |-> <<>>,
            reply |-> MalformedReply] }
    \cup { [raises |-> TRUE, exc |-> e, detected |-> <<>>, reply |-> NoReply] :
            e \in VendorErrors }

(***************************************************************************)
(* Startup, lines 18-38                                                    *)
(***************************************************************************)
StartupClient(e, construct_raises) ==
    IF ~EnvTruthy(e.AWS_ACCESS_KEY_ID) \/ ~EnvTruthy(e.AWS_SECRET_ACCESS_KEY)
    THEN "None"
    ELSE IF construct_raises THEN "None" ELSE "Client"

NoReplies ==
    [root |-> [sent |-> FALSE, status |-> "-", aws_configured |-> FALSE],
     health |-> [sent |-> FALSE, status |-> "-", aws_rekognition |-> "-",
                 environment_vars |-> [AWS_ACCESS_KEY_ID |-> FALSE,
                                       AWS_SECRET_ACCESS_KEY |-> FALSE]],
     debug |-> [sent |-> FALSE, aws_client_status |-> "-", region |-> "-",
                environment_variables |-> [AWS_ACCESS_KEY_ID |-> "-",
                                           AWS_SECRET_ACCESS_KEY |-> "-"]]]

Init ==
    /\ env \in [AWS_ACCESS_KEY_ID : EnvValues, AWS_SECRET_ACCESS_KEY : EnvValues]
    /\ \E construct_raises \in BOOLEAN :
          rekognition = StartupClient(env, construct_raises)
    /\ pc = "idle"
    /\ file = NoFile
    /\ image_bytes = NoBytes
    /\ response = NoReply
    /\ result = NoResult
    /\ steps = <<>>
    /\ vendor_calls = <<>>
    /\ get_replies = NoReplies

(***************************************************************************)
(* The GET endpoints                                                       *)
(***************************************************************************)
\* the client check left out
ClientConfiguredAlways == TRUE

\* `if rekognition` / `rekognition is not None`
ClientConfigured == rekognition # "None"

handler_vars == <<pc, file, image_bytes, response, result, steps, vendor_calls>>

\* lines 40-47
RootReply ==
    [sent |-> TRUE, status |-> "healthy", aws_configured |-> ClientConfigured]

Root ==
    /\ get_replies' = [get_replies EXCEPT !.root = RootReply]
    /\ UNCHANGED <<env, rekognition, handler_vars>>

\* aws_status taken from the environment instead of the client
HealthReplyFromEnv ==
    [sent |-> TRUE, status |-> "healthy",
     aws_rekognition |->
        IF EnvTruthy(env.AWS_ACCESS_KEY_ID) /\ EnvTruthy(env.AWS_SECRET_ACCESS_KEY)
        THEN "configured" ELSE "not configured",
     environment_vars |->
        [AWS_ACCESS_KEY_ID |-> EnvTruthy(env.AWS_ACCESS_KEY_ID),
         AWS_SECRET_ACCESS_KEY |-> EnvTruthy(env.AWS_SECRET_ACCESS_KEY)]]

\* lines 49-60
HealthReply ==
    [sent |-> TRUE, status |-> "healthy",
     aws_rekognition |-> IF ClientConfigured THEN "configured" ELSE "not configured",
     environment_vars |->
        [AWS_ACCESS_KEY_ID |-> EnvTruthy(env.AWS_ACCESS_KEY_ID),
         AWS_SECRET_ACCESS_KEY |-> EnvTruthy(env.AWS_SECRET_ACCESS_KEY)]]

HealthCheck ==
    /\ get_replies' = [get_replies EXCEPT !.health = HealthReply]
    /\ UNCHANGED <<env, rekognition, handler_vars>>

\* lines 135-145
DebugReply ==
    [sent |-> TRUE,
     aws_client_status |-> IF ClientConfigured THEN "Initialized" ELSE "Not Initialized",
     region |-> "us-east-1",
     environment_variables |->
        [AWS_ACCESS_KEY_ID |->
            IF EnvTruthy(env.AWS_ACCESS_KEY_ID) THEN "Set" ELSE "Not Set",
         AWS_SECRET_ACCESS_KEY |->
            IF EnvTruthy(env.AWS_SECRET_ACCESS_KEY) THEN "Set" ELSE "Not Set"]]

DebugEnvironment ==
    /\ get_replies' = [get_replies EXCEPT !.debug = DebugReply]
    /\ UNCHANGED <<env, rekognition, handler_vars>>

(***************************************************************************)
(* POST /detect, lines 62-133                                              *)
(***************************************************************************)
\* the request reaches the handler with its upload
DetectRequest ==
    /\ pc \in {"idle", "done"}
    /\ \E f \in Uploads : file' = f
    /\ pc' = "check_client"
    /\ image_bytes' = NoBytes
    /\ response' = NoReply
    /\ result' = NoResult
    /\ steps' = <<>>
    /\ vendor_calls' = <<>>
    /\ UNCHANGED <<env, rekognition, get_replies>>

\* the handler ends with r: an exception raised or a payload returned
Finish(r) ==
    /\ result' = r
    /\ pc' = "done"

\* lines 66-71
CheckClient ==
    /\ pc = "check_client"
    /\ steps' = Append(steps, "check_client")
    /\ IF ~ClientConfigured
       THEN Finish(Raised(HTTPException(500, NotConfiguredDetail)))
       ELSE pc' = "check_type" /\ UNCHANGED result
    /\ UNCHANGED <<env, rekognition, file, image_bytes, response, vendor_calls,
                   get_replies>>

\* the content type only tested for presence
IsImageTypeAnyType(ct) == ~ct.isNone /\ ct.s # <<>>

\* line 74
IsImageType(ct) == ~ct.isNone /\ ct.s # <<>> /\ StartsWith(ct.s, ImagePrefix)

\* lines 73-78
CheckContentType ==
    /\ pc = "check_type"
    /\ steps' = Append(steps, "check_type")
    /\ IF ~IsImageType(file.content_type)
       THEN Finish(Raised(HTTPException(400, NotImageDetail)))
       ELSE pc' = "read" /\ UNCHANGED result
    /\ UNCHANGED <<env, rekognition, file, image_bytes, response, vendor_calls,
                   get_replies>>

\* lines 80-82: await file.read(), inside the try
ReadBody ==
    /\ pc = "read"
    /\ steps' = Append(steps, "read")
    /\ IF file.read_raises
       THEN /\ Finish(Raised(TryExcept(OtherException("read failed"))))
            /\ UNCHANGED image_bytes
       ELSE /\ image_bytes' = file.body
            /\ pc' = "check_size"
            /\ UNCHANGED result
    /\ UNCHANGED <<env, rekognition, file, response, vendor_calls, get_replies>>

\* the size checks without the empty-file check
SizeCheckNoEmpty(bytes) ==
    IF bytes.len > MaxImageBytes THEN HTTPException(400, TooLargeDetail)
    ELSE NoException

\* lines 84-95: the exception the size checks raise inside the try, if any
SizeCheck(bytes) ==
    IF bytes.len > MaxImageBytes THEN HTTPException(400, TooLargeDetail)
    ELSE IF bytes.len = 0 THEN HTTPException(400, EmptyDetail)
    ELSE NoException

CheckSize ==
    /\ pc = "check_size"
    /\ steps' = Append(steps, "check_size")
    /\ IF SizeCheck(image_bytes) # NoException
       THEN Finish(Raised(TryExcept(SizeCheck(image_bytes))))
       ELSE pc' = "call_vendor" /\ UNCHANGED result
    /\ UNCHANGED <<env, rekognition, file, image_bytes, response, vendor_calls,
                   get_replies>>

\* the call with a lower threshold
DetectLabelsArgsLowThreshold(bytes) ==
    [Image |-> [Bytes |-> bytes], MaxLabels |-> MaxLabels,
     MinConfidence |-> MinConfidence - 25]

\* lines 98-102: the arguments of the call
DetectLabelsArgs(bytes) ==
    [Image |-> [Bytes |-> bytes], MaxLabels |-> MaxLabels,
     MinConfidence |-> MinConfidence]

\* lines 97-102
CallVendor ==
    /\ pc = "call_vendor"
    /\ steps' = Append(steps, "call_vendor")
    /\ \E o \in VendorOutcomes(DetectLabelsArgs(image_bytes)) :
          /\ vendor_calls' =
                Append(vendor_calls,
                       [args |-> DetectLabelsArgs(image_bytes), outcome |-> o])
          /\ IF o.raises
             THEN Finish(Raised(TryExcept(o.exc))) /\ UNCHANGED response
             ELSE response' = o.reply /\ pc' = "shape" /\ UNCHANGED result
    /\ UNCHANGED <<env, rekognition, file, image_bytes, get_replies>>

\* lines 106-110: a KeyError when a label lacks "Name" or "Confidence"
ShapeRaises(reply) ==
    \E i \in 1..Len(reply.Labels) :
        ~({"Name", "Confidence"} \subseteq DOMAIN reply.Labels[i])

\* lines 106-110
ShapeLabel(label) ==
    [name |-> label.Name,
     confidence |-> Round2(label.Confidence),
     categories |->
        IF "Categories" \in DOMAIN label
        THEN [j \in 1..Len(label.Categories) |-> label.Categories[j].Name]
        ELSE <<>>]

\* the labels in reverse order
ShapeLabelsReversed(reply) ==
    [i \in 1..Len(reply.Labels) |->
        ShapeLabel(reply.Labels[Len(reply.Labels) + 1 - i])]

\* lines 105-112
ShapeLabels(reply) == [i \in 1..Len(reply.Labels) |-> ShapeLabel(reply.Labels[i])]

\* lines 114-119
SuccessPayload(f, labels) ==
    [success |-> TRUE, filename |-> f.filename, labels_count |-> Len(labels),
     labels |-> labels]

\* lines 104-119
ShapeResponse ==
    /\ pc = "shape"
    /\ steps' = Append(steps, "shape")
    /\ IF ShapeRaises(response)
       THEN Finish(Raised(TryExcept(OtherException("KeyError"))))
       ELSE Finish(Returned(SuccessPayload(file, ShapeLabels(response))))
    /\ UNCHANGED <<env, rekognition, file, image_bytes, response, vendor_calls,
                   get_replies>>

Next ==
    \/ Root
    \/ HealthCheck
    \/ DebugEnvironment
    \/ DetectRequest
    \/ CheckClient
    \/ CheckContentType
    \/ ReadBody
    \/ CheckSize
    \/ CallVendor
    \/ ShapeResponse

Spec == Init /\ [][Next]_vars

(***************************************************************************)
(* Properties                                                              *)
(***************************************************************************)
Done == pc = "done"

\* the request in flight carries a content type that starts with "image/"
ImageUpload ==
    /\ ~file.content_type.isNone
    /\ StartsWith(file.content_type.s, <<"i", "m", "a", "g", "e", "/">>)

SizeLimit == 5 * 1024 * 1024

Ended400(detail) ==
    /\ result.kind = "raise"
    /\ result.exc.type = "HTTPException"
    /\ result.exc.status_code = 400
    /\ result.exc.detail = detail

Ended500 ==
    /\ result.kind = "raise"
    /\ result.exc.type = "HTTPException"
    /\ result.exc.status_code = 500

EndedNotConfigured ==
    /\ Ended500
    /\ result.exc.detail =
         <<"AWS Rekognition client not configured. Please check environment variables.">>

Success == result.kind = "return" /\ result.payload.success

\* C1: a request with a configured client, an image/* content type and a
\* body of more than 5*1024*1024 bytes ends with status 400 "Image file too
\* large. Maximum size is 5MB." and without a vendor call.
C1_TooLargeIs400 ==
    (Done /\ rekognition = "Client" /\ ImageUpload /\ ~file.read_raises
          /\ file.body.len > SizeLimit)
    => /\ Ended400(<<"Image file too large. Maximum size is 5MB.">>)
       /\ vendor_calls = <<>>

\* C2: a request with a configured client, an image/* content type and an
\* empty body ends with status 400 "Empty file uploaded" and without a
\* vendor call.
C2_EmptyIs400 ==
    (Done /\ rekognition = "Client" /\ ImageUpload /\ ~file.read_raises
          /\ file.body.len = 0)
    => /\ Ended400(<<"Empty file uploaded">>)
       /\ vendor_calls = <<>>

\* C3: with a configured client, a request whose content type is missing,
\* empty or does not start with "image/" never has its body read and never
\* reaches the vendor, and ends with status 400 "File must be an image
\* (JPEG, PNG, etc.)", whatever the size of the body.
C3_NotImageIs400 ==
    (pc # "idle" /\ rekognition = "Client" /\ ~ImageUpload)
    => /\ \A i \in 1..Len(steps) : steps[i] \in {"check_client", "check_type"}
       /\ image_bytes = NoBytes
       /\ vendor_calls = <<>>
       /\ Done => Ended400(<<"File must be an image (JPEG, PNG, etc.)">>)

C3_Witness ==
    /\ Done /\ rekognition = "Client"
    /\ file.content_type.s = <<"i", "m", "a", "g", "e">>
    /\ file.body.len > SizeLimit
    /\ Ended400(<<"File must be an image (JPEG, PNG, etc.)">>)

\* C4: a ClientError of the vendor call ends the request with status 400 and
\* a detail that carries the vendor's code and message; any other exception
\* of the vendor call, of reading the upload or of shaping the reply ends it
\* with status 500; no vendor failure ends in a success.
C4_ErrorTranslation ==
    Done =>
      /\ \A i \in 1..Len(vendor_calls) :
           LET o == vendor_calls[i].outcome IN
           /\ (o.raises /\ o.exc.type = "ClientError")
                => Ended400(<<"AWS Rekognition Error", o.exc.code, o.exc.message>>)
           /\ (o.raises /\ o.exc.type # "ClientError") => Ended500
           /\ o.raises => ~Success
           /\ (~o.raises
                 /\ \E j \in 1..Len(o.reply.Labels) :
                       "Name" \notin DOMAIN o.reply.Labels[j]) => Ended500
      /\ (rekognition = "Client" /\ ImageUpload /\ file.read_raises) => Ended500

C4_Witness ==
    /\ Done
    /\ Len(vendor_calls) = 1
    /\ vendor_calls[1].outcome.raises
    /\ vendor_calls[1].outcome.exc.code = "ThrottlingException"
    /\ Ended400(<<"AWS Rekognition Error", "ThrottlingException", "Rate exceeded">>)

\* the vendor call of the request returned normally
VendorReturned == Len(vendor_calls) = 1 /\ ~vendor_calls[1].outcome.raises

\* every label of the vendor's reply carries a name and a confidence
WellFormed(reply) ==
    \A i \in 1..Len(reply.Labels) :
        {"Name", "Confidence"} \subseteq DOMAIN reply.Labels[i]

\* the payload repeats the vendor's labels one for one, in the vendor's order
PayloadMirrors(reply) ==
    /\ Success
    /\ result.payload.filename = file.filename
    /\ Len(result.payload.labels) = Len(reply.Labels)
    /\ result.payload.labels_count = Len(reply.Labels)
    /\ \A i \in 1..Len(reply.Labels) :
         LET v == reply.Labels[i]
             l == result.payload.labels[i]
         IN  /\ l.name = v.Name
             /\ IF "Categories" \in DOMAIN v
                THEN /\ Len(l.categories) = Len(v.Categories)
                     /\ \A j \in 1..Len(v.Categories) :
                           l.categories[j] = v.Categories[j].Name
                ELSE l.categories = <<>>

C6_CallArguments ==
    /\ \A i \in 1..Len(vendor_calls) :
         /\ vendor_calls[i].args.Image.Bytes = file.body
         /\ vendor_calls[i].args.MinConfidence = 75
         /\ vendor_calls[i].args.MaxLabels = 10
    /\ (Done /\ Success) =>
         /\ Len(result.payload.labels) <= 10
         /\ \A i \in 1..Len(result.payload.labels) :
               result.payload.labels[i].confidence >= 75 * 1000

\* the vendor detected more than 10 labels of at least 75% and one below
C6_Witness ==
    /\ Done /\ Success /\ VendorReturned
    /\ LET d == vendor_calls[1].outcome.detected IN
         /\ Cardinality({i \in 1..Len(d) : d[i].Confidence >= 75000}) > 10
         /\ \E i \in 1..Len(d) : d[i].Confidence < 75000
    /\ result.payload.labels_count = 10

\* C7: when the client was not initialized at startup (a credential variable
\* missing or empty, or the construction raised), every /detect request ends
\* with status 500 "AWS Rekognition client not configured..." after the
\* client check alone: no content-type check, no read, no vendor call.
C7_NotConfiguredIs500 ==
    /\ (env.AWS_ACCESS_KEY_ID # "set" \/ env.AWS_SECRET_ACCESS_KEY # "set")
          => rekognition = "None"
    /\ rekognition = "None" =>
         /\ \A i \in 1..Len(steps) : steps[i] = "check_client"
         /\ image_bytes = NoBytes
         /\ vendor_calls = <<>>
         /\ Done => EndedNotConfigured

C7_Witness ==
    /\ Done /\ rekognition = "None"
    /\ env.AWS_ACCESS_KEY_ID = "set" /\ env.AWS_SECRET_ACCESS_KEY = "empty"
    /\ ~ImageUpload /\ file.body.len > SizeLimit
    /\ EndedNotConfigured

\* C8: the steps of a request happen in the order client check, content-type
\* check, read, size checks, vendor call, shaping; the vendor is called at
\* most once and only after all checks passed; a success follows exactly one
\* vendor call that returned normally.
C8_StepOrder ==
    LET order == <<"check_client", "check_type", "read", "check_size",
                   "call_vendor", "shape">>
    IN  /\ Len(steps) <= Len(order)
        /\ \A i \in 1..Len(steps) : steps[i] = order[i]
        /\ Len(vendor_calls) <= 1
        /\ vendor_calls # <<>> =>
             /\ rekognition = "Client"
             /\ ImageUpload
             /\ ~file.read_raises
             /\ 0 < file.body.len /\ file.body.len <= SizeLimit
             /\ Len(steps) >= 5
        /\ Success =>
             /\ Len(vendor_calls) = 1
             /\ ~vendor_calls[1].outcome.raises
             /\ Len(steps) = 6

C8_Witness ==
    /\ Done /\ Success
    /\ steps = <<"check_client", "check_type", "read", "check_size",
                 "call_vendor", "shape">>
    /\ file.body.len = SizeLimit

\* C9: every request ends in exactly one of a success payload, an
\* HTTPException of status 400 or an HTTPException of status 500; nothing
\* else is returned and no other exception leaves the handler.
C9_ThreeOutcomes ==
    /\ ~Done => result.kind = "none"
    /\ Done =>
         \/ /\ Success
            /\ result.exc.type = "-"
         \/ /\ result.kind = "raise"
            /\ result.exc.type = "HTTPException"
            /\ result.exc.status_code \in {400, 500}
            /\ ~result.payload.success

C9_Witness ==
    /\ Done /\ Ended500 /\ file.read_raises
    /\ result.exc.detail = <<"Internal server error", "read failed">>

\* what the GET endpoints last reported agrees with the client
ReportsAgree ==
    /\ get_replies.root.sent =>
         /\ get_replies.root.aws_configured = (rekognition = "Client")
         /\ get_replies.root.status = "healthy"
    /\ get_replies.health.sent =>
         /\ (get_replies.health.aws_rekognition = "configured")
               = (rekognition = "Client")
         /\ get_replies.health.aws_rekognition \in {"configured", "not configured"}
         /\ get_replies.health.status = "healthy"
    /\ get_replies.debug.sent =>
         /\ (get_replies.debug.aws_client_status = "Initialized")
               = (rekognition = "Client")
         /\ get_replies.debug.aws_client_status \in {"Initialized", "Not Initialized"}
    /\ Done => (EndedNotConfigured <=> rekognition = "None")

\* C10: no request changes the client; /, /health and /debug report it as
\* configured all together or not at all, /detect ends with the "client not
\* configured" error exactly when they report it as not configured, the GET
\* endpoints make no vendor call and / and /health report "healthy".
C10_ClientStatusFixed ==
    /\ []ReportsAgree
    /\ [][/\ rekognition' = rekognition
          /\ get_replies' # get_replies => UNCHANGED <<vendor_calls, pc, result>>]_vars

C10_Witness ==
    /\ Done /\ rekognition = "None"
    /\ env.AWS_ACCESS_KEY_ID = "set" /\ env.AWS_SECRET_ACCESS_KEY = "set"
    /\ get_replies.root.sent /\ get_replies.health.sent /\ get_replies.debug.sent
    /\ ~get_replies.root.aws_configured
    /\ get_replies.health.environment_vars.AWS_ACCESS_KEY_ID

====
